---------------------------- MODULE Spec2Model ----------------------------
(***************************************************************************)
(* Model of the earliest-date locators of coinbase-data-fetcher:           *)
(*   - check_coin_dates.py: requests_get (ratelimit + tenacity around      *)
(*     requests.get), check_date_has_data, binary_search_earliest_date;    *)
(*   - scripts/update_coins.py: rate_limited_request (asyncio.Semaphore    *)
(*     around aiohttp), check_data_exists, find_earliest_date_optimized,   *)
(*     process_coin, process_all_coins;                                    *)
(*   - src/coinbase_data_fetcher/prefetch.py: the loops of                 *)
(*     prefetch_all_data and of main over fetch_data_for_coin, and the     *)
(*     loop of check_coin_dates.main over find_earliest_date.              *)
(* Dates of check_coin_dates are whole days counted from start_date.       *)
(* Datetimes of update_coins are instants counted in ticks from            *)
(* search_from (2017-01-01 00:00), TicksPerDay ticks to the day.           *)
(***************************************************************************)
EXTENDS Integers, FiniteSets, Sequences, Bags, TLC

\* ------------------------------------------------------------------ bounds
\* latest end_date (in days after start_date) handed to
\* binary_search_earliest_date
MaxDay == 9
\* resolution of a datetime of update_coins: ticks to the day
TicksPerDay == 2
\* latest day (after search_from) of end_date = now - 1 day, one coin alone
MaxOptDay == 6
\* the day of end_date when process_all_coins runs a batch of coins
BatchDays == 2
\* coin tasks process_all_coins runs beside the observed one
NumOthers == 11
\* coins of a batch run: len(coins) of prefetch_all_data, len(coins_to_check)
NumCoins == 2
\* len(granularities) of a batch run
NumGranularities == 3

\* ------------------------------------------------------- program constants
\* @limits(calls=10, period=1)
CALLS == 10
\* stop_after_attempt(5)
MaxAttempts == 5
\* RATE_LIMIT = 10; SEMAPHORE = asyncio.Semaphore(RATE_LIMIT)
RATE_LIMIT == 10

\* what the server does with one HTTP request
Outcomes == {"data", "empty", "timeout", "http429", "http5xx", "http4xx", "connerr"}

None == [tag |-> "None", day |-> 0]
Date(d) == [tag |-> "date", day |-> d]

VARIABLES
    script,          \* which script runs: "check_coin_dates" or "update_coins"
    source,          \* "monotone": every day >= T0 has data, no request fails;
                     \* "arbitrary": any outcome for any request
    T0,              \* first day with data of a monotone source
    \* ---- check_coin_dates.py
    end_date,        \* binary_search_earliest_date's end_date (start_date is day 0)
    bs_pc,           \* position in binary_search_earliest_date
    earliest_known,
    latest_without,
    result,          \* what binary_search_earliest_date returned
    probes,          \* calls of check_date_has_data made by the search
    reported,        \* the days for which some probe of the search reported data
    confirmed,       \* the days whose most recent probe reported data
    rg_pc,           \* position in requests_get
    rg_result,       \* what the last call of requests_get returned or raised
    attempt_number,  \* HTTP attempts made by the current call of requests_get
    tokens,          \* limiter calls admitted for the current call of requests_get
    num_calls,       \* ratelimit: calls counted in the current period
    period_over,     \* ratelimit: the current period has elapsed
    \* ---- scripts/update_coins.py
    now,             \* datetime.now(), in ticks after search_from
    coin,            \* the observed coin task (process_coin of one pair)
    others,          \* the other coin tasks of process_all_coins, a bag
    permits,         \* SEMAPHORE._value
    ahead,           \* waiters queued on SEMAPHORE before the observed task
    started,         \* HTTP requests started in the current second
    \* ---- what the locator's first probe, the one of the upper bound, met
    upper_outcome,   \* what requests_get returned or raised, or what
                     \* rate_limited_request returned ("none" before)
    upper_answer,    \* what the probe reported: "True", "False" ("none" before)
    \* ---- the batch loops of prefetch.py and of check_coin_dates.main
    batch,           \* which loop runs: "prefetch_all_data", "prefetch_main"
                     \* (main with --coin alone) or "check_main"
    run_pc,          \* "loop", "done", or "raised" when an exception left it
    item,            \* the loop variables: [c |-> coin, g |-> granularity]
    attempted,       \* the items handed to fetch_data_for_coin or to
                     \* find_earliest_date so far, in order
    failed           \* the items whose call raised, or whose locator found
                     \* nothing

check_vars == <<end_date, bs_pc, earliest_known, latest_without, result, probes,
                reported, confirmed,
                rg_pc, rg_result, attempt_number, tokens, num_calls, period_over>>
env_vars == <<script, source, T0>>
update_vars == <<now, coin, others, permits, ahead, started>>
upper_vars == <<upper_outcome, upper_answer>>
run_vars == <<batch, run_pc, item, attempted, failed>>
vars == <<env_vars, check_vars, update_vars, upper_vars, run_vars>>

\* the answers the server may give to a request about `day`
OutcomesFor(day) ==
    IF source = "monotone"
    THEN {IF day >= T0 THEN "data" ELSE "empty"}
    ELSE Outcomes

\* ===================================================== check_coin_dates.py

\* lines 25-27: one attempt of the wrapped function: requests.get, then
\* raise_for_status, then return response
AttemptResult(o) ==
    CASE o = "data" -> "response_data"
      [] o = "empty" -> "response_empty"
      [] o = "timeout" -> "Timeout"
      [] o = "http429" -> "HTTPError429"
      [] o = "http5xx" -> "HTTPError5xx"
      [] o = "http4xx" -> "HTTPError4xx"
      [] OTHER -> "ConnectionError"

\* retry on every exception instead of on Timeout alone
RetryIf_any(exc) == exc \notin {"response_data", "response_empty"}

\* line 21: retry=retry_if_exception_type(requests.exceptions.Timeout)
RetryIf(exc) == exc = "Timeout"

\* the stop test off by one
StopAfterAttempt_late(n) == n > MaxAttempts

\* line 19: stop=stop_after_attempt(5)
StopAfterAttempt(n) == n >= MaxAttempts

\* check_date_has_data without its try/except
check_date_has_data_unguarded(r) ==
    CASE r = "response_data" -> "True"
      [] r = "response_empty" -> "False"
      [] OTHER -> "raise"

\* lines 44-50: check_date_has_data on what requests_get returned or raised:
\* "True", "False", or "raise" when the exception leaves the function
check_date_has_data(r) ==
    CASE r = "response_data" -> "True"
      [] r = "response_empty" -> "False"
      [] OTHER -> "False"

\* lines 66-67: the midpoint, floored to midnight.  The half of an odd number of
\* days ends at noon; replace(hour=0, ...) drops the half day.
mid_date(lw, ek) ==
    LET half == ((ek - lw) * 2) \div 2          \* (ek - lw) // 2, in half days
        at_noon == (lw * 2) + half              \* latest_without + that
    IN  at_noon \div 2                          \* replace(hour=0, ...)

\* the loop test off by one: one more iteration when one day is left
LoopCondition_ge(lw, ek) == (ek - lw) >= 1

\* line 65: while (earliest_known - latest_without).days > 1
LoopCondition(lw, ek) == (ek - lw) > 1

\* the date the search asks about at position pc
ProbeDate(pc, lw, ek) ==
    CASE pc = "probe_end" -> end_date
      [] pc = "loop" -> mid_date(lw, ek)
      [] pc = "verify" -> ek
      [] pc = "next_day" -> ek + 1
      [] OTHER -> 0

Probing(pc) == pc \in {"probe_end", "loop", "verify", "next_day"}

At(pc, lw, ek, res) == [pc |-> pc, lw |-> lw, ek |-> ek, res |-> res]

\* line 65: the loop test, before each iteration and after the last
LoopHead(lw, ek) ==
    IF LoopCondition(lw, ek) THEN At("loop", lw, ek, None) ELSE At("verify", lw, ek, None)

\* the search entered whatever the probe of end_date reported
AfterEndProbe_nocheck(has) == LoopHead(0, end_date)

\* lines 58-63: after the probe of end_date
AfterEndProbe(has) ==
    IF has = "True"
    THEN LoopHead(0, end_date)
    ELSE At("done", latest_without, earliest_known, None)

\* the two branches of the loop body exchanged
AfterMidProbe_swapped(has) ==
    IF has = "True"
    THEN LoopHead(mid_date(latest_without, earliest_known), earliest_known)
    ELSE LoopHead(latest_without, mid_date(latest_without, earliest_known))

\* lines 66-74: after the probe of mid_date
AfterMidProbe(has) ==
    IF has = "True"
    THEN LoopHead(latest_without, mid_date(latest_without, earliest_known))
    ELSE LoopHead(mid_date(latest_without, earliest_known), earliest_known)

\* earliest_known returned whatever its second probe reports
AfterVerifyProbe_trusting(has) ==
    At("done", latest_without, earliest_known, Date(earliest_known))

\* None as soon as the second probe of earliest_known fails, without next_day
AfterVerifyProbe_nofallback(has) ==
    IF has = "True"
    THEN At("done", latest_without, earliest_known, Date(earliest_known))
    ELSE At("done", latest_without, earliest_known, None)

\* lines 79-83: after the second probe of earliest_known
AfterVerifyProbe(has) ==
    IF has = "True"
    THEN At("done", latest_without, earliest_known, Date(earliest_known))
    ELSE At("next_day", latest_without, earliest_known, None)

\* lines 84-87: after the probe of next_day
AfterNextDayProbe(has) ==
    IF has = "True"
    THEN At("done", latest_without, earliest_known, Date(earliest_known + 1))
    ELSE At("done", latest_without, earliest_known, None)

\* lines 57-87: the search from position bs_pc, given the answer of the probe
\* made there, up to the next probe or the return; an exception that leaves
\* check_date_has_data leaves the search too
BsStep(has) ==
    CASE has = "raise" -> At("raised", latest_without, earliest_known, None)
      [] bs_pc = "probe_end" -> AfterEndProbe(has)
      [] bs_pc = "loop" -> AfterMidProbe(has)
      [] bs_pc = "verify" -> AfterVerifyProbe(has)
      [] bs_pc = "next_day" -> AfterNextDayProbe(has)
      [] OTHER -> At(bs_pc, latest_without, earliest_known, result)

\* lines 16-17: a call enters sleep_and_retry and limits: the period is reset
\* when it has elapsed, the call is counted, and it is admitted to the retrying
\* function (line 18) unless more than CALLS were counted in the period
LimitsAdmits == (IF period_over THEN 0 ELSE num_calls) + 1 <= CALLS

EnterLimiter ==
    /\ num_calls' = (IF period_over THEN 0 ELSE num_calls) + 1
    /\ period_over' = FALSE
    /\ IF LimitsAdmits
       THEN /\ rg_pc' = "sending"
            /\ tokens' = 1
            /\ attempt_number' = 1
       ELSE /\ rg_pc' = "sleeping"
            /\ tokens' = 0
            /\ attempt_number' = 0

\* line 58: binary_search_earliest_date is called and probes end_date
SearchStart ==
    /\ script = "check_coin_dates"
    /\ bs_pc = "start"
    /\ bs_pc' = "probe_end"
    /\ probes' = probes + 1
    /\ EnterLimiter
    /\ UNCHANGED <<run_vars, env_vars, update_vars, upper_vars, reported, confirmed, end_date, earliest_known,
                   latest_without, result, rg_result>>

\* line 16: sleep_and_retry has slept for the rest of the period and calls the
\* limited function again
SleepAndRetry ==
    /\ rg_pc = "sleeping"
    /\ num_calls' = 1
    /\ period_over' = FALSE
    /\ rg_pc' = "sending"
    /\ tokens' = 1
    /\ attempt_number' = 1
    /\ UNCHANGED <<run_vars, env_vars, update_vars, upper_vars, reported, confirmed, end_date, bs_pc, earliest_known, latest_without, result,
                   probes, rg_result>>

\* lines 18-27: the HTTP attempt ends; tenacity retries it, gives up with
\* RetryError, or lets the result or the exception through
AttemptEnds ==
    /\ rg_pc = "sending"
    /\ \E o \in OutcomesFor(ProbeDate(bs_pc, latest_without, earliest_known)) :
         LET r == AttemptResult(o) IN
         IF RetryIf(r)
         THEN IF StopAfterAttempt(attempt_number)
              THEN rg_pc' = "raised" /\ rg_result' = "RetryError"
              ELSE rg_pc' = "backoff" /\ rg_result' = r
         ELSE IF r \in {"response_data", "response_empty"}
              THEN rg_pc' = "returned" /\ rg_result' = r
              ELSE rg_pc' = "raised" /\ rg_result' = r
    /\ UNCHANGED <<run_vars, env_vars, update_vars, upper_vars, reported, confirmed, end_date, bs_pc, earliest_known, latest_without, result,
                   probes, attempt_number, tokens, num_calls, period_over>>

\* line 20: wait_exponential(min=2) has slept at least two periods of the
\* limiter; the retry is made inside the limiter (the decorators of lines 16-18
\* put limits outside retry)
RetryAttempt ==
    /\ rg_pc = "backoff"
    /\ rg_pc' = "sending"
    /\ attempt_number' = attempt_number + 1
    /\ period_over' = TRUE
    /\ UNCHANGED <<run_vars, env_vars, update_vars, upper_vars, reported, confirmed, end_date, bs_pc, earliest_known, latest_without, result,
                   probes, rg_result, tokens, num_calls>>

\* lines 44-50 and 57-87: check_date_has_data turns what requests_get returned or
\* raised into an answer and the search goes on to its next probe or returns
ProbeAnswered ==
    /\ rg_pc \in {"returned", "raised"}
    /\ LET has == check_date_has_data(rg_result)
           day == ProbeDate(bs_pc, latest_without, earliest_known)
           s == BsStep(has)
       IN
         /\ upper_outcome' = IF bs_pc = "probe_end" THEN rg_result ELSE upper_outcome
         /\ upper_answer' = IF bs_pc = "probe_end" THEN has ELSE upper_answer
         /\ reported' = IF has = "True" THEN reported \cup {day} ELSE reported
         /\ confirmed' = IF has = "True" THEN confirmed \cup {day} ELSE confirmed \ {day}
         /\ bs_pc' = s.pc
         /\ latest_without' = s.lw
         /\ earliest_known' = s.ek
         /\ result' = s.res
         /\ IF Probing(s.pc)
            THEN /\ probes' = probes + 1
                 /\ EnterLimiter
            ELSE /\ probes' = probes
                 /\ rg_pc' = "idle"
                 /\ UNCHANGED <<attempt_number, tokens, num_calls, period_over>>
    /\ UNCHANGED <<run_vars, env_vars, update_vars, end_date, rg_result>>

\* the limiter's period of one second elapses
PeriodElapses ==
    /\ script = "check_coin_dates"
    /\ ~period_over
    /\ bs_pc \notin {"start", "done", "raised"}
    /\ period_over' = TRUE
    /\ UNCHANGED <<run_vars, env_vars, update_vars, upper_vars, reported, confirmed, end_date, bs_pc, earliest_known, latest_without, result,
                   probes, rg_pc, rg_result, attempt_number, tokens, num_calls>>

\* ================================================= scripts/update_coins.py

NoInstant == 0 - 1

\* a coin task before it runs: process_coin of a pair that is not in the
\* existing configuration and has no hint in KNOWN_START_DATES, with find_dates
\* on.  res is the start_date of process_coin, out what process_coin returns:
\* "kept" for the configuration entry, "dropped" for None
StartTask ==
    [pc |-> "start", io |-> "idle", left |-> 0, right |-> 0,
     earliest_with_data |-> NoInstant, res |-> None, probes |-> 0,
     in_config |-> FALSE, find_dates |-> TRUE, hinted |-> FALSE, out |-> "pending"]

\* the start dates that come from no search
actual_start == [tag |-> "KNOWN_START_DATES", day |-> 0]
existing_start_date == [tag |-> "existing_config", day |-> 0]
default_start_date == [tag |-> "2023-01-01", day |-> 0]

Day(t) == t \div TicksPerDay

\* line 74: end_date = datetime.now() - timedelta(days=1)
EndDate == now - TicksPerDay

\* timedelta / 2: true division, rounded to the nearest unit of the
\* resolution, a half to the even neighbour
HalfOf(d) ==
    LET q == d \div 2
    IN  IF d % 2 = 0 THEN q ELSE IF q % 2 = 0 THEN q ELSE q + 1

\* line 86: mid = left + (right - left) / 2
Mid(left, right) == left + HalfOf(right - left)

\* line 85: while (right - left).days > 1
OptLoopCondition(left, right) == ((right - left) \div TicksPerDay) > 1

\* lines 38-43: what rate_limited_request returns for the outcome of
\* session.get(..., timeout=10): the JSON of a 200, or None
rate_limited_request(o) ==
    CASE o = "data" -> "json_data"
      [] o = "empty" -> "json_empty"
      [] OTHER -> "None"

\* lines 60-61: check_data_exists on what rate_limited_request returned:
\* data is not None and len(data) > 0
check_data_exists(data) ==
    IF data = "json_data" THEN "True" ELSE "False"

\* lines 38-43: what rate_limited_request may return when the outcome of its
\* request is one of os
Returns(os) == {rate_limited_request(o) : o \in os}

\* lines 60-61 after 36-43: the answers of check_data_exists to a request whose
\* outcome is one of os
Answers(os) == {check_data_exists(data) : data \in Returns(os)}

\* lines 51 and 77, 88: the day whose first hour the task's request asks about
OptProbeDay(t) ==
    IF t.pc = "upper" THEN Day(EndDate) ELSE Day(Mid(t.left, t.right))

\* lines 94-97: the value find_earliest_date_optimized returns after the loop
OptReturn(ewd) == IF ewd # NoInstant THEN Date(Day(ewd)) ELSE None

\* lines 280-292: process_coin drops the coin (return None) when the locator
\* returned no start date, and returns the configuration entry otherwise
process_coin_returns(start_date) == IF start_date = None THEN "dropped" ELSE "kept"

\* lines 76-97: find_earliest_date_optimized from the task's position, given the
\* answer of the probe made there, up to the next probe or the return (where
\* the locals of the call are gone)
OptStep(t, has) ==
    LET return(v) == [StartTask EXCEPT !.pc = "done", !.res = v, !.probes = t.probes,
                                       !.in_config = t.in_config,
                                       !.find_dates = t.find_dates,
                                       !.hinted = t.hinted,
                                       !.out = process_coin_returns(v)]
        head(l, r, e) ==
            IF OptLoopCondition(l, r)
            THEN [t EXCEPT !.pc = "mid", !.io = "idle", !.left = l, !.right = r,
                           !.earliest_with_data = e, !.probes = t.probes + 1]
            ELSE return(OptReturn(e))
        m == Mid(t.left, t.right)
    IN  CASE has = "raise" -> [t EXCEPT !.pc = "raised", !.io = "idle"]
          [] t.pc = "upper" ->
               IF has = "True" THEN head(0, EndDate, NoInstant)
               ELSE return(None)
          [] t.pc = "mid" ->
               IF has = "True" THEN head(t.left, m, m)
               ELSE head(m, t.right, t.earliest_with_data)
          [] OTHER -> t

\* process_coin returns the entry with a start date that took no search
ReturnsWith(t, start_date) ==
    [t EXCEPT !.pc = "done", !.res = start_date, !.out = process_coin_returns(start_date)]

\* find_earliest_date_optimized without the lookup in KNOWN_START_DATES
find_earliest_date_optimized_nohint(t) == [t EXCEPT !.pc = "upper", !.probes = 1]

\* lines 68-78: find_earliest_date_optimized up to its first request: the hint
\* of KNOWN_START_DATES is returned at once, else the upper bound is probed
find_earliest_date_optimized(t) ==
    IF t.hinted
    THEN ReturnsWith(t, actual_start)
    ELSE [t EXCEPT !.pc = "upper", !.probes = 1]

\* lines 275-284: process_coin up to its first request or its return
process_coin(t) ==
    IF t.in_config THEN ReturnsWith(t, existing_start_date)
    ELSE IF t.find_dates THEN find_earliest_date_optimized(t)
    ELSE ReturnsWith(t, default_start_date)

NeedsRequest(t) == t.pc \in {"upper", "mid"}

Waiting(b) == {t \in DOMAIN b : t.io = "wait"}
NumWaiting(b) == BagCardinality([t \in Waiting(b) |-> b[t]])
Move(b, from, to) == (b (-) SetToBag({from})) (+) SetToBag({to})

\* the permit is kept when the request is over
Release_leaks(p) == p

\* line 36: leaving async with SEMAPHORE when no task waits, by whatever way
\* the body ended (lines 40, 41 and 43): SEMAPHORE.release() gives the permit
\* back
Release(p) == p + 1

\* started requests of the current second, counted up to one past RATE_LIMIT
Count(n) == IF n > RATE_LIMIT THEN RATE_LIMIT + 1 ELSE n

\* the request is started without a permit being awaited
Acquire_unbounded(t, p, queued) ==
    IF NeedsRequest(t)
    THEN [task |-> [t EXCEPT !.io = "flight"], permits |-> p - 1, inc |-> 1]
    ELSE [task |-> t, permits |-> p, inc |-> 0]

\* line 36: async with SEMAPHORE, entered by task t when the semaphore holds p
\* permits and `queued` tells whether a task waits on it: the task takes a
\* permit and starts its request (line 38), or queues up
Acquire(t, p, queued) ==
    IF NeedsRequest(t)
    THEN IF p > 0 /\ ~queued
         THEN [task |-> [t EXCEPT !.io = "flight"], permits |-> p - 1, inc |-> 1]
         ELSE [task |-> [t EXCEPT !.io = "wait"], permits |-> p, inc |-> 0]
    ELSE [task |-> t, permits |-> p, inc |-> 0]

\* lines 267-292 and 64-78: process_coin runs up to its first request
CoinStart ==
    /\ script = "update_coins"
    /\ coin.pc = "start"
    /\ LET t == process_coin(coin)
           a == Acquire(t, permits, NumWaiting(others) > 0)
       IN  /\ coin' = a.task
           /\ permits' = a.permits
           /\ started' = Count(started + a.inc)
           /\ ahead' = IF a.task.io = "wait" THEN NumWaiting(others) ELSE 0
    /\ UNCHANGED <<run_vars, env_vars, check_vars, upper_vars, now, others>>

\* lines 36-43 and 60-97: the observed task's request ends and
\* rate_limited_request returns data: the permit is released (and handed to
\* the first waiter), the answer is read, and the search goes on to its next
\* request or returns
CoinRequestEnds(data) ==
    LET has == check_data_exists(data)
        s == OptStep(coin, has)
    IN
    /\ upper_outcome' = IF coin.pc = "upper" THEN data ELSE upper_outcome
    /\ upper_answer' = IF coin.pc = "upper" THEN has ELSE upper_answer
    /\ IF NumWaiting(others) > 0
       THEN \E w \in Waiting(others) :
              LET b == Move(others, w, [w EXCEPT !.io = "flight"])
                  a == Acquire(s, permits, NumWaiting(b) > 0)
              IN  /\ others' = b
                  /\ coin' = a.task
                  /\ permits' = a.permits
                  /\ started' = Count(started + 1 + a.inc)
                  /\ ahead' = IF a.task.io = "wait" THEN NumWaiting(b) ELSE 0
       ELSE LET a == Acquire(s, Release(permits), FALSE)
            IN  /\ others' = others
                /\ coin' = a.task
                /\ permits' = a.permits
                /\ started' = Count(started + a.inc)
                /\ ahead' = 0

\* the server answers the observed task's request
CoinResponse ==
    /\ coin.io = "flight"
    /\ \E data \in Returns(OutcomesFor(OptProbeDay(coin)) \ {"timeout"}) :
         CoinRequestEnds(data)
    /\ UNCHANGED <<run_vars, env_vars, check_vars, now>>

\* line 38: timeout=10 ends the observed task's request
CoinTimeout ==
    /\ coin.io = "flight"
    /\ source = "arbitrary"
    /\ \E data \in Returns({"timeout"}) : CoinRequestEnds(data)
    /\ UNCHANGED <<run_vars, env_vars, check_vars, now>>

\* one second of wall-clock time ends
SecondElapses ==
    /\ script = "update_coins"
    /\ started > 0
    /\ started' = 0
    /\ UNCHANGED <<run_vars, env_vars, check_vars, upper_vars, now, coin, others, permits, ahead>>

\* lines 295-302: another coin task runs up to its first request
OtherStart ==
    /\ \E t \in DOMAIN others :
         /\ t.pc = "start"
         /\ LET a == Acquire(process_coin(t), permits,
                             coin.io = "wait" \/ NumWaiting(others) > 0)
            IN  /\ others' = Move(others, t, a.task)
                /\ permits' = a.permits
                /\ started' = Count(started + a.inc)
    /\ UNCHANGED <<run_vars, env_vars, check_vars, upper_vars, now, coin, ahead>>

\* lines 36-43 and 60-97: another task's request ends with outcome o
OtherRequestEnds(t, has) ==
    LET s == OptStep(t, has)
        rest == others (-) SetToBag({t})
    IN  IF coin.io = "wait" /\ ahead = 0
        THEN LET a == Acquire(s, permits, NumWaiting(rest) > 0)
             IN  /\ coin' = [coin EXCEPT !.io = "flight"]
                 /\ ahead' = 0
                 /\ others' = rest (+) SetToBag({a.task})
                 /\ permits' = a.permits
                 /\ started' = Count(started + 1 + a.inc)
        ELSE IF NumWaiting(rest) > 0
        THEN \E w \in Waiting(rest) :
               LET b == Move(rest, w, [w EXCEPT !.io = "flight"])
                   a == Acquire(s, permits, coin.io = "wait" \/ NumWaiting(b) > 0)
               IN  /\ coin' = coin
                   /\ ahead' = IF coin.io = "wait" THEN ahead - 1 ELSE 0
                   /\ others' = b (+) SetToBag({a.task})
                   /\ permits' = a.permits
                   /\ started' = Count(started + 1 + a.inc)
        ELSE LET a == Acquire(s, Release(permits), FALSE)
             IN  /\ coin' = coin
                 /\ ahead' = 0
                 /\ others' = rest (+) SetToBag({a.task})
                 /\ permits' = a.permits
                 /\ started' = Count(started + a.inc)

\* the server answers another task's request
OtherResponse ==
    /\ \E t \in DOMAIN others :
         /\ t.io = "flight"
         /\ \E has \in Answers(Outcomes \ {"timeout"}) : OtherRequestEnds(t, has)
    /\ UNCHANGED <<run_vars, env_vars, check_vars, upper_vars, now>>

\* line 38: timeout=10 ends another task's request
OtherTimeout ==
    /\ \E t \in DOMAIN others :
         /\ t.io = "flight"
         /\ \E has \in Answers({"timeout"}) : OtherRequestEnds(t, has)
    /\ UNCHANGED <<run_vars, env_vars, check_vars, upper_vars, now>>


CheckInit ==
    /\ end_date \in 0..MaxDay
    /\ bs_pc = "start"
    /\ earliest_known = 0
    /\ latest_without = 0
    /\ result = None
    /\ probes = 0
    /\ reported = {}
    /\ confirmed = {}
    /\ rg_pc = "idle"
    /\ rg_result = "none"
    /\ attempt_number = 0
    /\ tokens = 0
    /\ num_calls \in {0, CALLS - 1, CALLS}
    /\ period_over = FALSE

\* the script that does not run
CheckIdle ==
    /\ end_date = 0
    /\ bs_pc = "off"
    /\ earliest_known = 0
    /\ latest_without = 0
    /\ result = None
    /\ probes = 0
    /\ reported = {}
    /\ confirmed = {}
    /\ rg_pc = "idle"
    /\ rg_result = "none"
    /\ attempt_number = 0
    /\ tokens = 0
    /\ num_calls = 0
    /\ period_over = FALSE

UpdateIdle ==
    /\ now = TicksPerDay
    /\ coin = [StartTask EXCEPT !.pc = "off"]
    /\ others = EmptyBag
    /\ permits = RATE_LIMIT
    /\ ahead = 0
    /\ started = 0

\* process_all_coins with the observed pair alone
UpdateInit ==
    /\ now \in TicksPerDay..(((MaxOptDay + 2) * TicksPerDay) - 1)
    /\ \E c \in BOOLEAN, f \in BOOLEAN, h \in BOOLEAN :
         coin = [StartTask EXCEPT !.in_config = c, !.find_dates = f, !.hinted = h]
    /\ others = EmptyBag
    /\ permits = RATE_LIMIT
    /\ ahead = 0
    /\ started = 0

\* process_all_coins with the observed pair and NumOthers more
BatchInit ==
    /\ now = (BatchDays + 1) * TicksPerDay
    /\ coin = StartTask
    /\ others = [t \in {StartTask} |-> NumOthers]
    /\ permits = RATE_LIMIT
    /\ ahead = 0
    /\ started = 0

\* ======================================== the batch loops (prefetch.py, main)

\* what a call of requests_get can hand to check_date_has_data
TransportResults == {AttemptResult(o) : o \in Outcomes} \cup {"RetryError"}

\* lines 90-106 and 53-87 of check_coin_dates.py: how find_earliest_date can
\* end: with a date, with None, or with the exception that left
\* check_date_has_data
LocatorExits ==
    {"date", "None"} \cup
    (IF \E r \in TransportResults : check_date_has_data(r) = "raise"
     THEN {"raise"} ELSE {})

\* the loop variables after the last item
NoItem == [c |-> 0, g |-> 0]

\* the first item of the loop
FirstItem(b) ==
    IF b = "check_main" THEN [c |-> 1, g |-> 0] ELSE [c |-> 1, g |-> 1]

\* prefetch.py lines 62-63 (for coin in coins: for granularity in
\* granularities), lines 95 (for granularity in granularities) and
\* check_coin_dates.py line 165 (for ... in coins_to_check): the next item
NextItem(b, it) ==
    CASE b = "prefetch_all_data" ->
             IF it.g < NumGranularities THEN [c |-> it.c, g |-> it.g + 1]
             ELSE IF it.c < NumCoins THEN [c |-> it.c + 1, g |-> 1]
             ELSE NoItem
      [] b = "prefetch_main" ->
             IF it.g < NumGranularities THEN [c |-> it.c, g |-> it.g + 1]
             ELSE NoItem
      [] OTHER ->
             IF it.c < NumCoins THEN [c |-> it.c + 1, g |-> 0] ELSE NoItem

\* the loop goes on to the next item, or ends after the last
Continue(b, it) ==
    IF NextItem(b, it) = NoItem
    THEN [pc |-> "done", item |-> NoItem]
    ELSE [pc |-> "loop", item |-> NextItem(b, it)]

\* the loop without a try around the call
AfterException_propagates(b, it) == [pc |-> "raised", item |-> it]

\* prefetch.py lines 66-68 and 98-100: except Exception: print, continue
AfterException(b, it) == Continue(b, it)

\* fetch_data_for_coin returns
FetchReturns ==
    /\ batch \in {"prefetch_all_data", "prefetch_main"}
    /\ run_pc = "loop"
    /\ attempted' = Append(attempted, item)
    /\ run_pc' = Continue(batch, item).pc
    /\ item' = Continue(batch, item).item
    /\ UNCHANGED <<batch, failed, env_vars, check_vars, update_vars, upper_vars>>

\* fetch_data_for_coin raises an Exception
FetchRaises ==
    /\ batch \in {"prefetch_all_data", "prefetch_main"}
    /\ run_pc = "loop"
    /\ attempted' = Append(attempted, item)
    /\ failed' = failed \cup {item}
    /\ run_pc' = AfterException(batch, item).pc
    /\ item' = AfterException(batch, item).item
    /\ UNCHANGED <<batch, env_vars, check_vars, update_vars, upper_vars>>

\* check_coin_dates.py lines 165-168: find_earliest_date ends for one coin;
\* main has no try around it
LocatorEnds ==
    /\ batch = "check_main"
    /\ run_pc = "loop"
    /\ \E exit \in LocatorExits :
         /\ attempted' = Append(attempted, item)
         /\ failed' = IF exit = "date" THEN failed ELSE failed \cup {item}
         /\ run_pc' = IF exit = "raise" THEN "raised" ELSE Continue(batch, item).pc
         /\ item' = IF exit = "raise" THEN item ELSE Continue(batch, item).item
    /\ UNCHANGED <<batch, env_vars, check_vars, update_vars, upper_vars>>

\* no batch loop runs
RunIdle ==
    /\ batch = "off"
    /\ run_pc = "off"
    /\ item = NoItem
    /\ attempted = <<>>
    /\ failed = {}

InitRun ==
    /\ batch \in {"prefetch_all_data", "prefetch_main", "check_main"}
    /\ run_pc = "loop"
    /\ item = FirstItem(batch)
    /\ attempted = <<>>
    /\ failed = {}
    /\ upper_outcome = "none"
    /\ upper_answer = "none"
    /\ script = "batch"
    /\ source = "arbitrary"
    /\ T0 = 0
    /\ CheckIdle
    /\ UpdateIdle

NextRun ==
    \/ FetchReturns
    \/ FetchRaises
    \/ LocatorEnds

\* every call the loops make ends, by returning or by raising
SpecRun == InitRun /\ [][NextRun]_vars /\ WF_vars(NextRun)


Init ==
    /\ RunIdle
    /\ upper_outcome = "none"
    /\ upper_answer = "none"
    /\ script \in {"check_coin_dates", "update_coins"}
    /\ source \in {"monotone", "arbitrary"}
    /\ IF script = "check_coin_dates"
       THEN /\ T0 \in IF source = "monotone" THEN 0..(MaxDay + 1) ELSE {0}
            /\ CheckInit
            /\ UpdateIdle
       ELSE /\ T0 \in IF source = "monotone" THEN 0..(MaxOptDay + 1) ELSE {0}
            /\ CheckIdle
            /\ UpdateInit

Next ==
    \/ SearchStart
    \/ SleepAndRetry
    \/ AttemptEnds
    \/ RetryAttempt
    \/ ProbeAnswered
    \/ PeriodElapses
    \/ CoinStart
    \/ CoinResponse
    \/ CoinTimeout
    \/ SecondElapses

Spec == Init /\ [][Next]_vars

\* ---- a batch of coin tasks sharing SEMAPHORE
InitBatch ==
    /\ RunIdle
    /\ upper_outcome = "none"
    /\ upper_answer = "none"
    /\ script = "update_coins"
    /\ source = "arbitrary"
    /\ T0 = 0
    /\ CheckIdle
    /\ BatchInit

NextBatch ==
    \/ CoinStart
    \/ CoinResponse
    \/ CoinTimeout
    \/ OtherStart
    \/ OtherResponse
    \/ OtherTimeout
    \/ SecondElapses

SpecBatch == InitBatch /\ [][NextBatch]_vars

\* the steps of the coin tasks alone: the seconds of the wall clock, which no
\* step of a task reads, are not counted
NextTasks ==
    \/ CoinStart
    \/ CoinResponse
    \/ CoinTimeout
    \/ OtherStart
    \/ OtherResponse
    \/ OtherTimeout

\* the batch under fair scheduling: the event loop runs every task that can
\* run, and timeout=10 (line 38) ends every request the server leaves open
FairnessBatch ==
    /\ WF_vars(CoinStart)
    /\ WF_vars(CoinTimeout)
    /\ WF_vars(OtherStart)
    /\ WF_vars(OtherTimeout)

FairSpecBatch == InitBatch /\ [][NextTasks]_vars /\ FairnessBatch


\* ---- the same, with the steps the scripts take on their own being taken:
\* the program's own steps, the timeout aiohttp is given (line 38 of
\* update_coins.py), and the answers of a source that never fails.  requests.get
\* (line 25 of check_coin_dates.py) is given no timeout, so nothing makes an
\* attempt end when the server stays silent.
Fairness ==
    /\ WF_vars(SearchStart)
    /\ WF_vars(SleepAndRetry)
    /\ WF_vars(RetryAttempt)
    /\ WF_vars(ProbeAnswered)
    /\ WF_vars(CoinStart)
    /\ WF_vars(CoinTimeout)
    /\ WF_vars(source = "monotone" /\ AttemptEnds)
    /\ WF_vars(source = "monotone" /\ CoinResponse)

FairSpec == Init /\ [][Next]_vars /\ Fairness

\* =================================================================== claims

CheckDone == script = "check_coin_dates" /\ bs_pc = "done" /\ rg_pc = "idle"
CoinDone == script = "update_coins" /\ coin.pc = "done" /\ coin.io = "idle"
\* the pair has no known start date and find_dates is on
Searches(t) == ~t.in_config /\ t.find_dates /\ ~t.hinted

\* C1: against a source whose days >= T0 have data and whose days < T0 have
\* none, with start_date <= T0 <= end_date and no failing probe,
\* binary_search_earliest_date returns T0 or T0 + 1 day, never None, never an
\* earlier day, and never raises.
C1_BinarySearchFindsT0 ==
    (script = "check_coin_dates" /\ source = "monotone" /\ T0 <= end_date) =>
        /\ bs_pc # "raised"
        /\ bs_pc = "done" => result \in {Date(T0), Date(T0 + 1)}

C1_Witness ==
    /\ script = "check_coin_dates" /\ source = "monotone" /\ T0 <= end_date
    /\ T0 >= 2
    /\ bs_pc = "done"
    /\ probes >= 4
    /\ result = Date(T0)

\* C2: requests_get retries every transient failure: a call ends by raising a
\* timeout, a 5xx or a 429 only once its attempts are used up.
C2_TransientFailuresRetried ==
    (rg_pc = "raised" /\ rg_result \in {"Timeout", "HTTPError5xx", "HTTPError429"}) =>
        attempt_number >= MaxAttempts

\* C3: the limiter tokens a call of requests_get has consumed equal the HTTP
\* attempts it has made.
C3_TokenPerAttempt == tokens = attempt_number

\* C4: every call of requests_get and of rate_limited_request eventually
\* returns or raises, whatever the server does.
C4_TransportCallsReturn ==
    /\ (rg_pc \in {"sleeping", "sending", "backoff"}) ~> (rg_pc \in {"returned", "raised"})
    /\ \A n \in 1..(MaxOptDay + 3) :
         (coin.io \in {"wait", "flight"} /\ coin.probes = n)
            ~> ~(coin.io \in {"wait", "flight"} /\ coin.probes = n)

\* C5: against a source whose days >= T0 have data and whose days < T0 have
\* none, with search_from <= T0 <= end_date and no failing probe,
\* find_earliest_date_optimized (for a pair it has to search for) returns the
\* date T0 or T0 + 1 day, and so a date whenever the probe of the upper bound
\* found data.
C5_OptimizedFindsT0 ==
    (CoinDone /\ Searches(coin) /\ source = "monotone" /\ T0 <= Day(EndDate)) =>
        coin.res \in {Date(T0), Date(T0 + 1)}

\* C6: no more than RATE_LIMIT HTTP requests are started by
\* rate_limited_request within one second.
C6_AtMostRateLimitPerSecond == started <= RATE_LIMIT

\* C7: a fatal failure is never retried: an HTTP attempt of requests_get that
\* fails with a 4xx other than 429, or with a connection error, makes the call
\* raise with no further attempt.
C7_FatalNeverRetried ==
    [][(/\ rg_pc = "sending"
        /\ rg_pc' # "sending"
        /\ rg_result' \in {"HTTPError4xx", "ConnectionError"})
       => (rg_pc' = "raised" /\ attempt_number' = attempt_number)]_vars

C7_Witness ==
    /\ rg_pc = "raised"
    /\ rg_result = "HTTPError4xx"
    /\ attempt_number = 1

\* C8: one call of requests_get makes at most 5 HTTP attempts; after the fifth
\* timeout it raises an error that is not the timeout (tenacity's RetryError),
\* and it waits for no sixth attempt.
C8_AttemptsBounded ==
    /\ attempt_number <= MaxAttempts
    /\ rg_pc = "backoff" => attempt_number < MaxAttempts
    /\ rg_pc = "raised" => rg_result # "Timeout"
    /\ (rg_pc = "raised" /\ rg_result = "RetryError") => attempt_number = MaxAttempts

C8_Witness ==
    /\ rg_pc = "raised"
    /\ rg_result = "RetryError"
    /\ attempt_number = MaxAttempts

\* C9: in both locators, when the probe of the upper bound reports no data the
\* locator has returned None at once, after exactly one probe and without
\* entering the search loop.
C9_NoDataAtUpperBoundEndsSearch ==
    upper_answer = "False" =>
        IF script = "check_coin_dates"
        THEN CheckDone /\ result = None /\ probes = 1
        ELSE CoinDone /\ coin.res = None /\ coin.probes = 1

C9_Witness ==
    /\ upper_answer = "False"
    /\ upper_outcome = "response_empty"
    /\ CheckDone
    /\ end_date >= 2

\* C10: a probe never propagates a transport error: no locator is left by an
\* exception, and when the transport fails on the probe of the upper bound
\* (an exception or a response that is no success) the probe reports no data
\* and the locator returns None.
UpperFailed ==
    upper_outcome \notin {"none", "response_data", "response_empty", "json_data", "json_empty"}

C10_ProbeNeverRaises ==
    /\ bs_pc # "raised"
    /\ coin.pc # "raised"
    /\ UpperFailed =>
         /\ upper_answer = "False"
         /\ IF script = "check_coin_dates"
            THEN CheckDone /\ result = None
            ELSE CoinDone /\ coin.res = None

C10_Witness ==
    /\ UpperFailed
    /\ upper_outcome = "RetryError"
    /\ CheckDone
    /\ result = None


\* the items a batch run is to attempt, in order
Worklist(b) ==
    CASE b = "prefetch_all_data" ->
             [k \in 1..(NumCoins * NumGranularities) |->
                 [c |-> ((k - 1) \div NumGranularities) + 1,
                  g |-> ((k - 1) % NumGranularities) + 1]]
      [] b = "prefetch_main" -> [k \in 1..NumGranularities |-> [c |-> 1, g |-> k]]
      [] OTHER -> [k \in 1..NumCoins |-> [c |-> k, g |-> 0]]

IsPrefix(s, t) == Len(s) <= Len(t) /\ \A k \in 1..Len(s) : s[k] = t[k]

\* C11: in a batch run a failure for one item never aborts the others: the
\* loops of prefetch_all_data, of prefetch main with --coin, and of
\* check_coin_dates main hand every item of the batch to fetch_data_for_coin
\* (to find_earliest_date) exactly once and in order, whatever earlier items
\* raised or failed to find; no exception leaves the loop, and, every call
\* ending, the loop runs to completion.
C11_BatchFailureIsolated ==
    /\ [](/\ run_pc # "raised"
          /\ IsPrefix(attempted, Worklist(batch))
          /\ run_pc = "done" => attempted = Worklist(batch))
    /\ <>(run_pc = "done")

C11_Witness ==
    /\ batch = "prefetch_all_data"
    /\ run_pc = "done"
    /\ [c |-> 1, g |-> 1] \in failed
    /\ Cardinality(failed) >= 2
    /\ Len(attempted) = NumCoins * NumGranularities


\* the probe that is being answered reports data
ReportsData == check_date_has_data(rg_result) = "True"

\* C12: when the search loop of binary_search_earliest_date ends (after an
\* iteration, or before the first one), the final upper bound earliest_known is
\* probed once more; if that probe reports data the result is earliest_known;
\* otherwise earliest_known + 1 day is probed, and it is the result if that
\* probe reports data; the result is None only if both probes report no data.
C12_VerifyThenNextDay ==
    [][/\ (bs_pc = "loop" /\ bs_pc' # "loop") =>
              (bs_pc' = "verify" /\ probes' = probes + 1)
       /\ (bs_pc = "probe_end" /\ bs_pc' \notin {"probe_end", "loop"} /\ ReportsData) =>
              (bs_pc' = "verify" /\ probes' = probes + 1)
       /\ (bs_pc = "verify" /\ bs_pc' # "verify") =>
              /\ earliest_known' = earliest_known
              /\ IF ReportsData
                 THEN bs_pc' = "done" /\ result' = Date(earliest_known) /\ probes' = probes
                 ELSE bs_pc' = "next_day" /\ probes' = probes + 1
       /\ (bs_pc = "next_day" /\ bs_pc' # "next_day") =>
              /\ bs_pc' = "done"
              /\ probes' = probes
              /\ result' = IF ReportsData THEN Date(earliest_known + 1) ELSE None
      ]_vars

C12_Witness ==
    /\ script = "check_coin_dates"
    /\ bs_pc = "done"
    /\ earliest_known < end_date
    /\ result = Date(earliest_known + 1)


\* C13: a known earliest date skips the locator.  A pair in KNOWN_START_DATES
\* gets the recorded start date from find_earliest_date_optimized with zero
\* probes; a coin whose id is in the existing configuration, or any coin when
\* find_dates is off, gets its start date from process_coin with no probe at
\* all; requests are made only for a coin with no known date and find_dates
\* on; and process_coin drops a coin (returns None) only when that search
\* returned None.
C13_KnownDateSkipsLocator ==
    script = "update_coins" =>
        /\ ~Searches(coin) => (coin.probes = 0 /\ coin.io = "idle" /\ coin.out # "dropped")
        /\ (coin.pc = "done" /\ coin.in_config) =>
               (coin.res = existing_start_date /\ coin.out = "kept")
        /\ (coin.pc = "done" /\ ~coin.in_config /\ ~coin.find_dates) =>
               (coin.res = default_start_date /\ coin.out = "kept")
        /\ (coin.pc = "done" /\ ~coin.in_config /\ coin.find_dates /\ coin.hinted) =>
               (coin.res = actual_start /\ coin.out = "kept")
        /\ (coin.probes > 0 \/ coin.io # "idle") => Searches(coin)
        /\ coin.out = "dropped" <=> (coin.pc = "done" /\ Searches(coin) /\ coin.res = None)

C13_Witness ==
    /\ script = "update_coins"
    /\ coin.pc = "done"
    /\ ~coin.in_config /\ coin.find_dates /\ coin.hinted
    /\ coin.res = actual_start
    /\ coin.probes = 0


\* requests in flight: tasks inside async with SEMAPHORE
InFlight ==
    (IF coin.io = "flight" THEN 1 ELSE 0)
    + BagCardinality([t \in {u \in DOMAIN others : u.io = "flight"} |-> others[t]])

\* C14: SEMAPHORE starves no caller.  Every permit that is not in the
\* semaphore is held by a request in flight, because rate_limited_request
\* gives its permit back however its request ends (a 200, another status, an
\* exception, the 10-second timeout); so, under fair scheduling, a task that
\* waits for SEMAPHORE eventually acquires it and issues its request.
C14_NoStarvation ==
    /\ [](permits + InFlight = RATE_LIMIT)
    /\ (coin.io = "wait") ~> (coin.io = "flight")

C14_Witness ==
    /\ script = "update_coins"
    /\ coin.io = "wait"
    /\ ahead > 0
    /\ permits = 0
    /\ InFlight = RATE_LIMIT


RECURSIVE CeilLog2(_)
\* the least k with 2^k >= n
CeilLog2(n) == IF n <= 1 THEN 0 ELSE 1 + CeilLog2((n + 1) \div 2)

\* C15: binary_search_earliest_date over start_date < end_date, whatever the
\* probes answer: each iteration of the loop probes a whole day strictly
\* between latest_without and earliest_known, every change of the two bounds
\* narrows their distance, and the search makes at most ceil(log2(N)) + 3
\* probes, N the days from start_date to end_date; so it ends once its probes
\* are answered.
C15_ProbesLogarithmic ==
    /\ []((script = "check_coin_dates" /\ end_date >= 1) =>
            /\ probes <= CeilLog2(end_date) + 3
            /\ bs_pc = "loop" =>
                 /\ latest_without < mid_date(latest_without, earliest_known)
                 /\ mid_date(latest_without, earliest_known) < earliest_known)
    /\ [][(bs_pc = "loop" /\ end_date >= 1) =>
            \/ (latest_without' = latest_without /\ earliest_known' = earliest_known)
            \/ /\ earliest_known' - latest_without' < earliest_known - latest_without
               /\ earliest_known' - latest_without' >= 1
               /\ bs_pc' \in {"loop", "verify"}
         ]_vars

C15_Witness ==
    /\ script = "check_coin_dates"
    /\ end_date = MaxDay
    /\ bs_pc = "done"
    /\ probes = CeilLog2(end_date) + 3


\* C16: whatever the probes answer, a failed probe being read as no data,
\* binary_search_earliest_date keeps earliest_known a day for which some probe
\* reported data, keeps latest_without < earliest_known (start_date <
\* end_date), and returns only a day whose most recent probe reported data: a
\* failed probe never makes it return a day no probe confirmed.
C16_HighConfirmed ==
    (script = "check_coin_dates" /\ end_date >= 1) =>
        /\ bs_pc \in {"loop", "verify", "next_day"} =>
              /\ earliest_known \in reported
              /\ latest_without < earliest_known
        /\ (bs_pc = "done" /\ result # None) =>
              /\ result.day \in confirmed
              /\ result.day \in {earliest_known, earliest_known + 1}

C16_Witness ==
    /\ script = "check_coin_dates"
    /\ bs_pc = "done"
    /\ upper_outcome = "response_data"
    /\ result = Date(earliest_known + 1)
    /\ earliest_known \in reported \ confirmed


\* C17: in update_coins at most RATE_LIMIT HTTP requests are in flight at any
\* moment over all the coin tasks that run concurrently, and a coin task has
\* at most one probe under way: a task waits or has a request in flight only
\* for the one probe its search is at, and it goes on to its next probe only
\* in the step that ends the request of the previous one.
C17_AtMostRateLimitInFlight ==
    /\ [](/\ InFlight <= RATE_LIMIT
          /\ permits >= 0
          /\ coin.io # "idle" => (NeedsRequest(coin) /\ coin.probes >= 1)
          /\ \A t \in DOMAIN others : t.io # "idle" => (NeedsRequest(t) /\ t.probes >= 1))
    /\ [][coin.probes' # coin.probes =>
            /\ coin.probes' = coin.probes + 1
            /\ coin.io = "flight" \/ (coin.pc = "start" /\ coin.probes = 0)
         ]_vars

C17_Witness ==
    /\ script = "update_coins"
    /\ InFlight = RATE_LIMIT
    /\ coin.io = "flight"
    /\ coin.probes >= 2
    /\ NumWaiting(others) >= 1

=============================================================================
